---- MODULE Spec2Model ----
(***************************************************************************)
(* Evaluation-history ledger of litebo: HistoryContainer (single           *)
(* objective) and MOHistoryContainer (multi objective), modelled from      *)
(* src/litebo/utils/history_container.py.                                  *)
(*                                                                         *)
(* An OrderedDict is a sequence of <<key, value>> pairs in insertion       *)
(* order.  A Python list object is a sequence; where the code shares one   *)
(* list object between several references, the references are object       *)
(* identities into list_objs.  Indices are 1-based (objective i of the     *)
(* model is index i-1 of the code).                                        *)
(***************************************************************************)
EXTENDS Integers, Sequences, FiniteSets, TLC

VARIABLES
    \* the class of the ledger object: "HistoryContainer" or "MOHistoryContainer"
    cls,
    \* fields of both classes
    data, config_counter,
    \* fields of HistoryContainer
    incumbent_value, incumbents,
    \* fields of MOHistoryContainer
    pareto, num_objs, mo_incumbent_value, mo_incumbents, ref_point, hv_data,
    \* the list objects mo_incumbents refers to
    list_objs,
    \* how the last call ended: "none" before any call; of add "added",
    \* "repeated" (warning logged, early return) or "AssertionError"; of
    \* save_json "saved"; of load_history_from_json "loaded", "warning" (logged,
    \* early return), "KeyError" or "ValueError"
    outcome,
    \* the snapshot file save_json wrote last
    file,
    \* the mapping the last call returned; <<>> also when it returned None
    returned,
    \* the number of calls of HistoryContainer.load_history_from_json on this
    \* ledger, the calls that write it
    loads

so_fields == <<incumbent_value, incumbents>>
mo_fields == <<pareto, num_objs, mo_incumbent_value, mo_incumbents, ref_point,
               hv_data, list_objs>>
fields == <<data, config_counter, so_fields, mo_fields>>
vars == <<cls, fields, outcome, file, returned, loads>>

(***************************************************************************)
(* Bounds of the model.                                                    *)
(***************************************************************************)
\* number of distinct configurations the optimizer may evaluate
NumConfigs == 3
\* performance values are drawn from 1..MaxVal
MaxVal == 2
\* a HistoryContainer loads a snapshot at most MaxLoads times
MaxLoads == 1

Configs == 1..NumConfigs
Costs == 1..MaxVal
\* lengths of the performance vectors a caller may pass to MOHistoryContainer.add
ObjCounts == {1, 2}
PerfVectors == UNION {[1..n -> Costs] : n \in ObjCounts}

(***************************************************************************)
(* Values of the program.                                                  *)
(***************************************************************************)
\* MAXINT of litebo.utils.constants is 2**31 - 1, the largest integer the model
\* checker holds, and a performance may be larger.  The ledger only compares
\* performances with MAXINT, so the model keeps the order and places MAXINT one
\* below: Huge is a performance above MAXINT.
MAXINT == 2147483646
Huge == 2147483647
\* performance vectors with coordinates that may exceed MAXINT
WideVectors == UNION {[1..n -> Costs \cup {Huge}] : n \in ObjCounts}
\* Python's None, for num_objs
None == -1
\* Python's None, for ref_point, mo_incumbent_value and mo_incumbents
NoneSeq == <<>>
\* the reference points a caller may configure: one coordinate per objective
RefPoints == {[j \in 1..n |-> IF j = 1 THEN MaxVal ELSE MaxVal + 1] : n \in ObjCounts}

(***************************************************************************)
(* OrderedDict helpers.                                                    *)
(***************************************************************************)
Range(s) == {s[k] : k \in DOMAIN s}
Keys(d) == {d[k][1] : k \in DOMAIN d}
Values(d) == [k \in DOMAIN d |-> d[k][2]]
GetPerf(d, config) == d[CHOOSE k \in DOMAIN d : d[k][1] = config][2]
\* d[config] = perf for a key that may or may not be present
SetItem(d, config, perf) ==
    IF config \in Keys(d)
    THEN [k \in DOMAIN d |-> IF d[k][1] = config THEN <<config, perf>> ELSE d[k]]
    ELSE Append(d, <<config, perf>>)
\* d.pop(conf) for every conf of remove, in order
PopAll(d, remove) ==
    LET Kept(e) == e[1] \notin Range(remove)
    IN SelectSeq(d, Kept)

(***************************************************************************)
(* HistoryContainer                                                        *)
(***************************************************************************)
\* a ledger without the duplicate check: every configuration passes as new
IsRepeated_Never(d, config) == FALSE

\* "config in self.data"
IsRepeated(d, config) == config \in Keys(d)

\* an incumbent update that appends a better or tying record but forgets to
\* store its performance as incumbent_value
UpdateIncumbents_KeepValue(incs, value, config, perf) ==
    IF Len(incs) > 0
    THEN LET cleared == IF perf < value THEN <<>> ELSE incs
         IN IF perf <= value
            THEN [incumbents |-> Append(cleared, <<config, perf>>),
                  incumbent_value |-> value]
            ELSE [incumbents |-> cleared, incumbent_value |-> value]
    ELSE [incumbents |-> Append(incs, <<config, perf>>),
          incumbent_value |-> perf]

\* an incumbent update that never clears the list of the beaten incumbents
UpdateIncumbents_NoClear(incs, value, config, perf) ==
    IF Len(incs) > 0
    THEN IF perf <= value
         THEN [incumbents |-> Append(incs, <<config, perf>>),
               incumbent_value |-> perf]
         ELSE [incumbents |-> incs, incumbent_value |-> value]
    ELSE [incumbents |-> Append(incs, <<config, perf>>),
          incumbent_value |-> perf]

\* the incumbent update of add: the new incumbents list and incumbent_value
UpdateIncumbents(incs, value, config, perf) ==
    IF Len(incs) > 0
    THEN LET cleared == IF perf < value THEN <<>> ELSE incs
         IN IF perf <= value
            THEN [incumbents |-> Append(cleared, <<config, perf>>),
                  incumbent_value |-> perf]
            ELSE [incumbents |-> cleared, incumbent_value |-> value]
    ELSE [incumbents |-> Append(incs, <<config, perf>>),
          incumbent_value |-> perf]

\* an add that counts the call before it looks for the configuration in data
HistoryContainer_add_CountsFirst(config, perf) ==
    /\ cls = "HistoryContainer"
    /\ UNCHANGED <<cls, mo_fields>>
    /\ config_counter' = config_counter + 1
    /\ IF IsRepeated(data, config)
       THEN /\ outcome' = "repeated"
            /\ UNCHANGED <<data, so_fields>>
       ELSE LET upd == UpdateIncumbents(incumbents, incumbent_value, config, perf)
            IN /\ data' = SetItem(data, config, perf)
               /\ incumbents' = upd.incumbents
               /\ incumbent_value' = upd.incumbent_value
               /\ outcome' = "added"

HistoryContainer_add(config, perf) ==
    /\ cls = "HistoryContainer"
    /\ UNCHANGED <<cls, mo_fields>>
    /\ IF IsRepeated(data, config)
       THEN /\ outcome' = "repeated"
            /\ UNCHANGED <<data, config_counter, so_fields>>
       ELSE LET upd == UpdateIncumbents(incumbents, incumbent_value, config, perf)
            IN /\ data' = SetItem(data, config, perf)
               /\ config_counter' = config_counter + 1
               /\ incumbents' = upd.incumbents
               /\ incumbent_value' = upd.incumbent_value
               /\ outcome' = "added"

get_all_configs == [k \in DOMAIN data |-> data[k][1]]
empty == config_counter = 0

(***************************************************************************)
(* MOHistoryContainer                                                      *)
(***************************************************************************)
\* [list()] * n: ONE list object, referenced n times
AllocIncumbentLists(n) ==
    [refs |-> [i \in 1..n |-> 1], objs |-> << <<>> >>]

\* a comparison by strict inequality in every coordinate
AllLeq_Strict(u, v) == \A j \in (DOMAIN u) \cap (DOMAIN v) : u[j] < v[j]

\* all(a <= b for a, b in zip(u, v)): zip stops at the shorter vector
AllLeq(u, v) == \A j \in (DOMAIN u) \cap (DOMAIN v) : u[j] <= v[j]

\* a scan that does not stop at a dominating entry: the else branch always runs
RECURSIVE ParetoScan_NoBreak(_, _, _, _)
ParetoScan_NoBreak(par, perf, k, remove_config) ==
    IF k > Len(par)
    THEN [completed |-> TRUE, remove_config |-> remove_config]
    ELSE IF AllLeq(par[k][2], perf)
    THEN ParetoScan_NoBreak(par, perf, k + 1, remove_config)
    ELSE IF AllLeq(perf, par[k][2])
    THEN ParetoScan_NoBreak(par, perf, k + 1, Append(remove_config, par[k][1]))
    ELSE ParetoScan_NoBreak(par, perf, k + 1, remove_config)

\* a scan that marks only the first entry the new point dominates
RECURSIVE ParetoScan_MarkOne(_, _, _, _)
ParetoScan_MarkOne(par, perf, k, remove_config) ==
    IF k > Len(par)
    THEN [completed |-> TRUE, remove_config |-> remove_config]
    ELSE IF AllLeq(par[k][2], perf)
    THEN [completed |-> FALSE, remove_config |-> remove_config]
    ELSE IF AllLeq(perf, par[k][2]) /\ remove_config = <<>>
    THEN ParetoScan_MarkOne(par, perf, k + 1, Append(remove_config, par[k][1]))
    ELSE ParetoScan_MarkOne(par, perf, k + 1, remove_config)

\* a scan that tests "the new point dominates the entry" before "the entry
\* dominates the new point"
RECURSIVE ParetoScan_MarkFirst(_, _, _, _)
ParetoScan_MarkFirst(par, perf, k, remove_config) ==
    IF k > Len(par)
    THEN [completed |-> TRUE, remove_config |-> remove_config]
    ELSE IF AllLeq(perf, par[k][2])
    THEN ParetoScan_MarkFirst(par, perf, k + 1, Append(remove_config, par[k][1]))
    ELSE IF AllLeq(par[k][2], perf)
    THEN [completed |-> FALSE, remove_config |-> remove_config]
    ELSE ParetoScan_MarkFirst(par, perf, k + 1, remove_config)

\* the for/else scan of the front: completed is FALSE when the loop left by break
RECURSIVE ParetoScan(_, _, _, _)
ParetoScan(par, perf, k, remove_config) ==
    IF k > Len(par)
    THEN [completed |-> TRUE, remove_config |-> remove_config]
    ELSE IF AllLeq(par[k][2], perf)
    THEN [completed |-> FALSE, remove_config |-> remove_config]
    ELSE IF AllLeq(perf, par[k][2])
    THEN ParetoScan(par, perf, k + 1, Append(remove_config, par[k][1]))
    ELSE ParetoScan(par, perf, k + 1, remove_config)

\* a Pareto update that inserts the new point but pops nothing
UpdatePareto_NoPop(par, config, perf) ==
    LET scan == ParetoScan(par, perf, 1, <<>>)
    IN IF scan.completed THEN SetItem(par, config, perf) ELSE par

\* a Pareto update that inserts the new point only when it removes nothing
UpdatePareto_InsertOrPop(par, config, perf) ==
    LET scan == ParetoScan(par, perf, 1, <<>>)
        inserted == IF scan.completed /\ scan.remove_config = <<>>
                    THEN SetItem(par, config, perf)
                    ELSE par
    IN PopAll(inserted, scan.remove_config)

\* "update pareto": the scan, the insertion of its else branch, then the pops
UpdatePareto(par, config, perf) ==
    LET scan == ParetoScan(par, perf, 1, <<>>)
        inserted == IF scan.completed THEN SetItem(par, config, perf) ELSE par
    IN PopAll(inserted, scan.remove_config)

\* "update mo_incumbents": the loop over the objectives, from objective i on
RECURSIVE UpdateMoIncumbents(_, _, _, _, _, _)
UpdateMoIncumbents(refs, objs, values, config, perf, i) ==
    IF i > Len(refs)
    THEN [objs |-> objs, values |-> values]
    ELSE LET r == refs[i]
             entry == <<config, perf[i], perf>>
         IN IF Len(objs[r]) > 0
            THEN LET cleared == IF perf[i] < values[i]
                                THEN [objs EXCEPT ![r] = <<>>]
                                ELSE objs
                 IN IF perf[i] <= values[i]
                    THEN UpdateMoIncumbents(
                             refs,
                             [cleared EXCEPT ![r] = Append(@, entry)],
                             [values EXCEPT ![i] = perf[i]],
                             config, perf, i + 1)
                    ELSE UpdateMoIncumbents(refs, cleared, values,
                                            config, perf, i + 1)
            ELSE UpdateMoIncumbents(
                     refs,
                     [objs EXCEPT ![r] = Append(@, entry)],
                     [values EXCEPT ![i] = perf[i]],
                     config, perf, i + 1)

\* an assertion that only asks for enough coordinates
ObjsMatch_AtLeast(n, perf) == n <= Len(perf)

\* the condition of "assert self.num_objs == len(perf)"
ObjsMatch(n, perf) == n = Len(perf)

get_pareto_front(par) == Values(par)

\* Hypervolume(ref_point).compute(front): the volume dominated by the front and
\* bounded by ref, counted in unit cells [z, z+1) (exact for integer vectors)
Hypervolume(ref, front) ==
    Cardinality({z \in [DOMAIN ref -> Costs] :
                    /\ \A j \in DOMAIN ref : z[j] < ref[j]
                    /\ \E k \in DOMAIN front :
                           \A j \in DOMAIN ref : front[k][j] <= z[j]})

\* a hypervolume update with the two branches of "if pareto_front" exchanged
UpdateHvData_Exchanged(hv, ref, par) ==
    IF ref # NoneSeq
    THEN LET pareto_front == get_pareto_front(par)
         IN Append(hv, IF pareto_front = <<>>
                       THEN Hypervolume(ref, pareto_front)
                       ELSE 0)
    ELSE hv

\* a hypervolume taken of the front as it was before this insertion
UpdateHvData_Stale(hv, ref, par) ==
    IF ref # NoneSeq
    THEN LET pareto_front == get_pareto_front(pareto)
         IN Append(hv, IF pareto_front # <<>>
                       THEN Hypervolume(ref, pareto_front)
                       ELSE 0)
    ELSE hv

\* "Calculate current hypervolume if reference point is provided"
UpdateHvData(hv, ref, par) ==
    IF ref # NoneSeq
    THEN LET pareto_front == get_pareto_front(par)
         IN Append(hv, IF pareto_front # <<>>
                       THEN Hypervolume(ref, pareto_front)
                       ELSE 0)
    ELSE hv

MOHistoryContainer_add(config, perf) ==
    LET first == num_objs = None
        n == IF first THEN Len(perf) ELSE num_objs
        alloc == AllocIncumbentLists(n)
        values0 == IF first THEN [i \in 1..n |-> MAXINT] ELSE mo_incumbent_value
        refs0 == IF first THEN alloc.refs ELSE mo_incumbents
        objs0 == IF first THEN alloc.objs ELSE list_objs
    IN
    /\ cls = "MOHistoryContainer"
    \* the caller gives the reference point one coordinate per objective
    /\ (first /\ ref_point # NoneSeq) => Len(perf) = Len(ref_point)
    /\ UNCHANGED <<cls, so_fields, ref_point>>
    /\ IF ~ObjsMatch(n, perf)
       THEN \* assert self.num_objs == len(perf) fails; num_objs was not None
            /\ outcome' = "AssertionError"
            /\ UNCHANGED <<data, config_counter, pareto, num_objs,
                           mo_incumbent_value, mo_incumbents, list_objs, hv_data>>
       ELSE IF IsRepeated(data, config)
       THEN /\ outcome' = "repeated"
            /\ num_objs' = n
            /\ mo_incumbent_value' = values0
            /\ mo_incumbents' = refs0
            /\ list_objs' = objs0
            /\ UNCHANGED <<data, config_counter, pareto, hv_data>>
       ELSE LET upd == UpdateMoIncumbents(refs0, objs0, values0, config, perf, 1)
            IN /\ data' = SetItem(data, config, perf)
               /\ config_counter' = config_counter + 1
               /\ pareto' = UpdatePareto(pareto, config, perf)
               /\ num_objs' = n
               /\ mo_incumbents' = refs0
               /\ list_objs' = upd.objs
               /\ mo_incumbent_value' = upd.values
               /\ hv_data' = UpdateHvData(hv_data, ref_point, pareto')
               /\ outcome' = "added"

\* compute_hypervolume(), with the reference point of the ledger
compute_hypervolume ==
    LET pareto_front == get_pareto_front(pareto)
    IN IF pareto_front # <<>>
       THEN Hypervolume(ref_point, pareto_front)
       ELSE 0

\* what a reader of self.mo_incumbents[i] sees
MoIncumbents(i) == list_objs[mo_incumbents[i]]

(***************************************************************************)
(* Snapshots.  A file is absent, holds text that is no JSON, or holds a    *)
(* JSON object: keys are the keys the object has, malformed the keys whose *)
(* value has not the shape the reader converts (a "data" that is no list   *)
(* of pairs of a dictionary and a number, a counter or value that is no    *)
(* number); data, config_counter and incumbent_value are the values of the *)
(* well-formed keys.                                                       *)
(***************************************************************************)
NoFile == [kind |-> "absent", keys |-> {}, malformed |-> {}, data |-> <<>>,
           config_counter |-> 0, incumbent_value |-> 0]
NoJson == [NoFile EXCEPT !.kind = "garbage"]

\* Configuration.get_dictionary() and get_config_from_dict(k, cs) of the
\* configuration-space collaborator, for equal configuration spaces
get_dictionary(config) == [id |-> config]
get_config_from_dict(k) == k.id
\* float(v) and int(v): every number of the model is an integer below 2**53,
\* which float holds exactly
float(v) == v
int(v) == v

\* a save that writes the records newest first
SnapshotData_NewestFirst(d) ==
    [k \in DOMAIN d |->
        <<get_dictionary(d[Len(d) + 1 - k][1]), float(d[Len(d) + 1 - k][2])>>]

\* [(k.get_dictionary(), float(v)) for k, v in self.data.items()]
SnapshotData(d) ==
    [k \in DOMAIN d |-> <<get_dictionary(d[k][1]), float(d[k][2])>>]

\* [(k.get_dictionary(), v) for k, v in self.data.items()]
MOSnapshotData(d) ==
    [k \in DOMAIN d |-> <<get_dictionary(d[k][1]), d[k][2]>>]

HistoryContainer_save_json ==
    /\ cls = "HistoryContainer"
    /\ file' = [kind |-> "json",
                keys |-> {"task_id", "data", "config_counter", "incumbent_value"},
                malformed |-> {},
                data |-> SnapshotData(data),
                config_counter |-> config_counter,
                incumbent_value |-> incumbent_value]
    /\ outcome' = "saved"
    /\ returned' = <<>>
    /\ UNCHANGED <<cls, fields, loads>>

MOHistoryContainer_save_json ==
    /\ cls = "MOHistoryContainer"
    /\ file' = [kind |-> "json",
                keys |-> {"data"},
                malformed |-> {},
                data |-> MOSnapshotData(data),
                config_counter |-> 0,
                incumbent_value |-> 0]
    /\ outcome' = "saved"
    /\ returned' = <<>>
    /\ UNCHANGED <<cls, fields, loads>>

\* what the file named fn may hold: the snapshot, nothing, text that is no
\* JSON, or a copy of the snapshot with a key missing or a value malformed
FilesAt ==
    {file, NoFile, NoJson}
    \cup {[file EXCEPT !.keys = @ \ {key}] : key \in file.keys}
    \cup {[file EXCEPT !.malformed = {key}] : key \in file.keys \ {"task_id"}}

\* all_data[key] and its conversion succeed
Reads(content, key) == key \in content.keys /\ key \notin content.malformed
\* the exception of all_data[key], or of the conversion of its value
Raised(content, key) == IF key \in content.keys THEN "ValueError" ELSE "KeyError"

\* the loop over all_data["data"], up to entry n: _history_data[config] = perf
RECURSIVE HistoryData(_, _)
HistoryData(entries, n) ==
    IF n = 0
    THEN <<>>
    ELSE SetItem(HistoryData(entries, n - 1),
                 get_config_from_dict(entries[n][1]), float(entries[n][2]))

RECURSIVE MOHistoryData(_, _)
MOHistoryData(entries, n) ==
    IF n = 0
    THEN <<>>
    ELSE SetItem(MOHistoryData(entries, n - 1),
                 get_config_from_dict(entries[n][1]), entries[n][2])

\* the try block catches what open and json.load raise; the statements after
\* it run one by one until one raises
HistoryContainer_load_history_from_json(content) ==
    /\ cls = "HistoryContainer"
    /\ loads' = loads + 1
    /\ UNCHANGED <<cls, file, incumbents, mo_fields>>
    /\ IF content.kind # "json"
       THEN /\ outcome' = "warning"
            /\ returned' = <<>>
            /\ UNCHANGED <<data, config_counter, incumbent_value>>
       ELSE IF ~Reads(content, "data")
       THEN /\ outcome' = Raised(content, "data")
            /\ returned' = <<>>
            /\ UNCHANGED <<data, config_counter, incumbent_value>>
       ELSE LET _history_data == HistoryData(content.data, Len(content.data))
            IN /\ data' = _history_data
               /\ IF ~Reads(content, "config_counter")
                  THEN /\ outcome' = Raised(content, "config_counter")
                       /\ returned' = <<>>
                       /\ UNCHANGED <<config_counter, incumbent_value>>
                  ELSE /\ config_counter' = int(content.config_counter)
                       /\ IF ~Reads(content, "incumbent_value")
                          THEN /\ outcome' = Raised(content, "incumbent_value")
                               /\ returned' = <<>>
                               /\ UNCHANGED incumbent_value
                          ELSE /\ incumbent_value' = float(content.incumbent_value)
                               /\ outcome' = "loaded"
                               /\ returned' = _history_data

MOHistoryContainer_load_history_from_json(content) ==
    /\ cls = "MOHistoryContainer"
    /\ UNCHANGED <<cls, file, fields, loads>>
    /\ IF content.kind # "json"
       THEN /\ outcome' = "warning"
            /\ returned' = <<>>
       ELSE IF ~Reads(content, "data")
       THEN /\ outcome' = Raised(content, "data")
            /\ returned' = <<>>
       ELSE /\ outcome' = "loaded"
            /\ returned' = MOHistoryData(content.data, Len(content.data))

\* HistoryContainer(task_id): the next run creates a new ledger; the file stays
HistoryContainer_init ==
    /\ cls = "HistoryContainer"
    /\ data' = <<>>
    /\ config_counter' = 0
    /\ incumbent_value' = MAXINT
    /\ incumbents' = <<>>
    /\ outcome' = "none"
    /\ returned' = <<>>
    /\ loads' = 0
    /\ UNCHANGED <<cls, file, mo_fields>>

(***************************************************************************)
(* The ledger: an object of either class, created empty, then any sequence *)
(* of add calls by its single writer.                                      *)
(***************************************************************************)
Init ==
    /\ cls \in {"HistoryContainer", "MOHistoryContainer"}
    /\ data = <<>>
    /\ config_counter = 0
    /\ incumbent_value = MAXINT
    /\ incumbents = <<>>
    /\ pareto = <<>>
    /\ num_objs = None
    /\ mo_incumbent_value = NoneSeq
    /\ mo_incumbents = NoneSeq
    /\ list_objs = <<>>
    /\ ref_point \in IF cls = "MOHistoryContainer"
                     THEN {NoneSeq} \cup RefPoints
                     ELSE {NoneSeq}
    /\ hv_data = <<>>
    /\ outcome = "none"
    /\ file = NoFile
    /\ returned = <<>>
    /\ loads = 0

\* The ledger only hashes and compares configurations, so a run is taken up to
\* the naming of its configurations: the caller submits a configuration that
\* is a key of data already, or the lowest one that is not.
Submits(config) ==
    \/ config \in Keys(data)
    \/ /\ config \notin Keys(data)
       /\ \A other \in Configs \ Keys(data) : config <= other

\* add writes no file and returns None
AddOnly == UNCHANGED <<file, loads>> /\ returned' = <<>>

Next ==
    \/ \E config \in Configs, perf \in Costs :
           Submits(config) /\ HistoryContainer_add(config, perf) /\ AddOnly
    \/ \E config \in Configs, perf \in PerfVectors :
           Submits(config) /\ MOHistoryContainer_add(config, perf) /\ AddOnly

\* a ledger of either class, with or without a reference point
Spec == Init /\ [][Next]_vars
\* a ledger of either class; a MOHistoryContainer has a reference point
InitRef == Init /\ (cls = "MOHistoryContainer" => ref_point # NoneSeq)
SpecRef == InitRef /\ [][Next]_vars

\* a MOHistoryContainer without a reference point, whose caller passes
\* performances that may exceed MAXINT
InitWide == Init /\ cls = "MOHistoryContainer" /\ ref_point = NoneSeq
NextWide ==
    \E config \in Configs, perf \in WideVectors :
        Submits(config) /\ MOHistoryContainer_add(config, perf) /\ AddOnly
SpecWide == InitWide /\ [][NextWide]_vars

\* an exception out of load_history_from_json ends the run of its caller
Running == outcome \notin {"KeyError", "ValueError"}

\* a ledger of either class that is saved to and loaded from snapshot files;
\* hypervolumes are not recorded
InitSnapshot == Init /\ ref_point = NoneSeq
NextSnapshot ==
    \/ Running /\ Next
    \/ Running /\ HistoryContainer_save_json
    \/ Running /\ MOHistoryContainer_save_json
    \/ Running /\ loads < MaxLoads /\ \E content \in FilesAt :
           HistoryContainer_load_history_from_json(content)
    \/ Running /\ \E content \in FilesAt :
           MOHistoryContainer_load_history_from_json(content)
    \/ HistoryContainer_init
SpecSnapshot == InitSnapshot /\ [][NextSnapshot]_vars

\* a ledger of either class that saves its snapshot and loads it back
NextRoundTrip ==
    \/ Next
    \/ HistoryContainer_save_json
    \/ MOHistoryContainer_save_json
    \/ loads < MaxLoads /\ HistoryContainer_load_history_from_json(file)
    \/ MOHistoryContainer_load_history_from_json(file)
    \/ HistoryContainer_init
SpecRoundTrip == InitSnapshot /\ [][NextRoundTrip]_vars

(***************************************************************************)
(* Properties                                                              *)
(***************************************************************************)
SeqMin(s) == CHOOSE m \in Range(s) : \A x \in Range(s) : m <= x
\* u weakly dominates v: u[j] <= v[j] for every objective j
WeaklyDominates(u, v) == \A j \in DOMAIN u : u[j] <= v[j]
IsSO == cls = "HistoryContainer"
IsMO == cls = "MOHistoryContainer"

\* C1: in both classes, add with a configuration that is already a key of data,
\* with any performance, leaves data, config_counter, incumbent_value and
\* incumbents (in MOHistoryContainer: pareto, mo_incumbents, mo_incumbent_value
\* and hv_data) as they were before the call.
C1_RepeatedAddIsNoOp ==
    [][ \/ UNCHANGED <<data, config_counter, incumbent_value, incumbents, pareto,
                       mo_incumbents, list_objs, mo_incumbent_value, hv_data>>
        \* a step that changes one of them is no add of a key of data
        \/ /\ \A config \in Keys(data), perf \in Costs :
                 ~HistoryContainer_add(config, perf)
           /\ \A config \in Keys(data), perf \in PerfVectors :
                 ~MOHistoryContainer_add(config, perf)
      ]_vars

\* a MOHistoryContainer with a hypervolume series after a repeated add
C1_Witness ==
    /\ IsMO
    /\ outcome = "repeated"
    /\ Len(data) >= 2
    /\ Len(hv_data) >= 2

\* C2: in a HistoryContainer, after the n-th accepted insertion incumbent_value
\* is the minimum performance among the n accepted records (data holds them).
C2_IncumbentValueIsMin ==
    (IsSO /\ config_counter > 0) =>
        /\ Len(data) = config_counter
        /\ incumbent_value = SeqMin(Values(data))

\* three accepted records, the minimum being the second one
C2_Witness ==
    /\ IsSO
    /\ config_counter = 3
    /\ data[2][2] < data[1][2]
    /\ data[2][2] < data[3][2]
    /\ incumbent_value = data[2][2]

\* the records of data whose performance is the minimum, in insertion order
MinRecords(d) ==
    LET AtMin(e) == e[2] = SeqMin(Values(d))
    IN SelectSeq(d, AtMin)

\* C3: in a HistoryContainer, incumbents is exactly the list, in insertion
\* order, of the accepted (config, perf) pairs whose perf is the current
\* minimum; so a strictly better insertion leaves only the new pair, a tying
\* one is appended and a worse one changes nothing.
C3_IncumbentsAreMinRecords ==
    IsSO =>
        /\ incumbents = IF data = <<>> THEN <<>> ELSE MinRecords(data)
        /\ \A k \in DOMAIN incumbents : incumbents[k][2] = incumbent_value

\* A worse, then B and C tying at a better value: incumbents is [B, C]
C3_Witness ==
    /\ IsSO
    /\ Len(data) = 3
    /\ data[1][2] > data[2][2]
    /\ data[2][2] = data[3][2]
    /\ incumbents = <<data[2], data[3]>>
    /\ incumbent_value = data[2][2]

\* C4: in a MOHistoryContainer no entry of pareto weakly dominates another
\* entry of pareto; in particular no two entries have equal vectors.
C4_ParetoSound ==
    IsMO =>
        \A k, m \in DOMAIN pareto :
            k # m => /\ ~WeaklyDominates(pareto[k][2], pareto[m][2])
                     /\ pareto[k][1] # pareto[m][1]

\* a front of two entries after three accepted insertions: the first record
\* was removed from the front by a later one
C4_Witness ==
    /\ IsMO
    /\ Len(data) = 3
    /\ Len(pareto) = 2
    /\ data[1][1] \notin Keys(pareto)
    /\ pareto = <<data[2], data[3]>>

\* record k of d is on the Pareto front of d: no record with another vector
\* weakly dominates it, and no earlier record has its vector
NonDominated(d, k) ==
    /\ \A m \in DOMAIN d :
           d[m][2] # d[k][2] => ~WeaklyDominates(d[m][2], d[k][2])
    /\ \A m \in 1..(k - 1) : d[m][2] # d[k][2]

\* C5: in a MOHistoryContainer pareto holds exactly the non-dominated records
\* of data (no other record with a different vector weakly dominates it and it
\* is the earliest record with its vector), each with the vector data stores.
C5_ParetoIsFrontOfData ==
    IsMO =>
        /\ Range(pareto) = {data[k] : k \in {m \in DOMAIN data : NonDominated(data, m)}}
        /\ Cardinality(Range(pareto)) = Len(pareto)
        /\ \A k \in DOMAIN pareto : pareto[k][2] = GetPerf(data, pareto[k][1])

\* two incomparable records and a third that both dominate: the front is the
\* first two
C5_Witness ==
    /\ IsMO
    /\ Len(data) = 3
    /\ ~WeaklyDominates(data[1][2], data[2][2])
    /\ ~WeaklyDominates(data[2][2], data[1][2])
    /\ WeaklyDominates(data[1][2], data[3][2])
    /\ WeaklyDominates(data[2][2], data[3][2])
    /\ pareto = <<data[1], data[2]>>

\* the vectors add accepts: any for the first record, then those of num_objs
\* coordinates
Accepted == {perf \in PerfVectors : num_objs # None => Len(perf) = num_objs}
\* the configurations that are no key of data yet
Unseen == Configs \ Keys(data)

\* C6: when add gets a new configuration whose vector equals the vector of an
\* entry of pareto, pareto stays as it was (the earlier entry stays, the new
\* one is not inserted) while the record is stored in data and counted.
C6_ExactTieRejected ==
    [][ \A config \in Unseen, perf \in Accepted \cap Range(Values(pareto)) :
            MOHistoryContainer_add(config, perf)
            => /\ pareto' = pareto
               /\ data' = Append(data, <<config, perf>>)
               /\ config_counter' = config_counter + 1
      ]_vars

\* the record added last ties with the only entry of the front and is not on it
C6_Witness ==
    /\ IsMO
    /\ outcome = "added"
    /\ Len(data) = 2
    /\ data[1][2] = data[2][2]
    /\ pareto = <<data[1]>>

\* C7: an accepted record is left out of pareto if and only if some entry of
\* pareto, at the moment of the insertion, weakly dominates it.
C7_ParetoComplete ==
    [][ \A config \in Unseen, perf \in Accepted :
            MOHistoryContainer_add(config, perf)
            => ( config \notin Keys(pareto')
                 <=> \E k \in DOMAIN pareto : WeaklyDominates(pareto[k][2], perf) )
      ]_vars

\* the record added last entered a front that already held an entry, and a
\* record before it was left out
C7_Witness ==
    /\ IsMO
    /\ outcome = "added"
    /\ Len(data) = 3
    /\ Len(pareto) = 2
    /\ pareto[2] = data[3]
    /\ data[2][1] \notin Keys(pareto)
    /\ WeaklyDominates(data[1][2], data[2][2])

\* what a single-objective tracker run on coordinate i of the records of d
\* holds: the triples of the records tied at the minimum of the coordinate
TrackerOf(d, i) ==
    LET Coord(e) == e[2][i]
        lowest == SeqMin([k \in DOMAIN d |-> Coord(d[k])])
        AtMin(e) == Coord(e) = lowest
        tied == SelectSeq(d, AtMin)
    IN [k \in DOMAIN tied |-> <<tied[k][1], Coord(tied[k]), tied[k][2]>>]

\* C8: for every objective i, mo_incumbents[i] is what an independent
\* single-objective tracker run on perf[i] holds: the triples, in insertion
\* order, of the accepted records tied at the minimum of coordinate i, every
\* triple's scalar being mo_incumbent_value[i].
C8_PerObjectiveTracker ==
    (IsMO /\ data # <<>>) =>
        \A i \in 1..num_objs :
            /\ MoIncumbents(i) = TrackerOf(data, i)
            /\ \A k \in DOMAIN MoIncumbents(i) :
                   MoIncumbents(i)[k][2] = mo_incumbent_value[i]

\* the value add appends for the front par
HvOf(par) ==
    IF par = <<>> THEN 0 ELSE Hypervolume(ref_point, Values(par))

\* C9: with a reference point, hv_data has one entry per accepted insertion
\* (len(hv_data) = config_counter), a repeated or aborted call appends nothing,
\* entries are never modified or removed, and the entry an accepted insertion
\* appends is the hypervolume of the front after that insertion's Pareto
\* update; without a reference point hv_data stays empty.
C9_HvSeriesAligned ==
    /\ [](IsMO => IF ref_point # NoneSeq
                  THEN Len(hv_data) = config_counter
                  ELSE hv_data = <<>>)
    /\ [][ (IsMO /\ ref_point # NoneSeq) =>
               IF config_counter' # config_counter
               THEN hv_data' = Append(hv_data, HvOf(pareto'))
               ELSE hv_data' = hv_data
         ]_vars

\* a series of three values that grows with the front, then a repeated call
C9_Witness ==
    /\ IsMO
    /\ ref_point # NoneSeq
    /\ outcome = "repeated"
    /\ Len(hv_data) = 3
    /\ hv_data[1] < hv_data[2]
    /\ hv_data[2] < hv_data[3]

\* C10: num_objs is set by the first add call and never changes afterwards; a
\* later add whose vector has another length aborts with an error and leaves
\* data, config_counter, pareto, mo_incumbents, mo_incumbent_value and hv_data
\* as they were.
C10_MismatchAborts ==
    [][ /\ num_objs # None => num_objs' = num_objs
        /\ num_objs = None =>
               \A config \in Configs, perf \in PerfVectors :
                   MOHistoryContainer_add(config, perf) => num_objs' = Len(perf)
        /\ \/ /\ outcome' = "AssertionError"
              /\ UNCHANGED <<data, config_counter, pareto, mo_incumbents,
                             list_objs, mo_incumbent_value, hv_data>>
           \* any other step is no add of a vector of another length
           \/ \A config \in Configs, perf \in PerfVectors \ Accepted :
                  ~MOHistoryContainer_add(config, perf)
      ]_vars

\* a ledger of two objectives holding records, after an aborted call
C10_Witness ==
    /\ IsMO
    /\ outcome = "AssertionError"
    /\ num_objs = 2
    /\ Len(data) >= 2
    /\ Len(pareto) = 2

\* the file content is a document load_history_from_json of the class of
\* the ledger reads to its end
WellFormed(content) ==
    /\ content.kind = "json"
    /\ Reads(content, "data")
    /\ IsSO => Reads(content, "config_counter") /\ Reads(content, "incumbent_value")

\* C11: given a file that is missing, unreadable or malformed (one that is no
\* JSON, or a JSON document that lacks or has a malformed "data",
\* "config_counter" or "incumbent_value"), load_history_from_json reports a
\* warning, raises no error, and leaves data, config_counter, incumbent_value
\* and incumbents as they were.
C11_LoadFailsOpen ==
    [][ \A content \in FilesAt :
            ( /\ ~WellFormed(content)
              /\ \/ HistoryContainer_load_history_from_json(content)
                 \/ MOHistoryContainer_load_history_from_json(content) )
            => /\ outcome' = "warning"
               /\ UNCHANGED <<data, config_counter, incumbent_value, incumbents>>
      ]_vars

\* the (configuration, performance) pairs a document lists, in its order
Pairs(doc) ==
    [k \in DOMAIN doc.data |-> <<doc.data[k][1].id, doc.data[k][2]>>]

C13_IncumbentsMatchCounter ==
    (IsSO /\ Running) =>
        /\ incumbents = <<>> <=> config_counter = 0
        /\ \A k \in DOMAIN incumbents : incumbents[k][2] = incumbent_value

\* C17: after a load of a snapshot that holds records, and any add calls after
\* it, incumbent_value is the minimum performance of the records of data, and
\* an added record worse than incumbent_value does not replace it.
C17_LoadedIncumbentValueKept ==
    /\ []((IsSO /\ Running /\ loads > 0 /\ data # <<>>) =>
              incumbent_value = SeqMin(Values(data)))
    /\ [][ (IsSO /\ loads > 0 /\ data # <<>>) =>
               \A config \in Unseen, perf \in Costs :
                   (perf > incumbent_value /\ HistoryContainer_add(config, perf))
                   => incumbent_value' = incumbent_value
         ]_vars

\* performance p is below the reference point ref in every coordinate
Inside(p, ref) == \A j \in DOMAIN ref : p[j] < ref[j]

\* the value the last step appended to hv_data
Appended == hv_data'[Len(hv_data')]

\* C14 as stated: every value appended to hv_data is at least 0, and it is 0
\* exactly when the Pareto front is empty at the time it is computed.
C14_ZeroIffEmptyFront ==
    [][ (IsMO /\ hv_data' # hv_data) =>
            /\ Appended >= 0
            /\ Appended = 0 <=> get_pareto_front(pareto') = <<>>
      ]_vars

\* C14, amended: every value appended to hv_data is at least 0, and it is 0
\* exactly when no entry of the front is below the reference point in every
\* coordinate, which includes the empty front, for which 0 is substituted
\* without calling the hypervolume collaborator.
C14_ZeroIffNothingInside ==
    /\ [](IsMO /\ ref_point # NoneSeq =>
              /\ compute_hypervolume >= 0
              /\ pareto = <<>> => compute_hypervolume = 0)
    /\ [][ (IsMO /\ hv_data' # hv_data) =>
               /\ Appended >= 0
               /\ Appended = 0 <=>
                      ~ \E k \in DOMAIN pareto' : Inside(pareto'[k][2], ref_point)
         ]_vars

\* a first record on the edge of the reference box gave 0 for a front of one
\* entry, a second record inside the box gave a positive value
C14_Witness ==
    /\ IsMO
    /\ ref_point # NoneSeq
    /\ outcome = "added"
    /\ Len(hv_data) = 2
    /\ hv_data[1] = 0
    /\ hv_data[2] > 0
    /\ ~Inside(data[1][2], ref_point)

\* the performances of a new record that some entry of the front weakly
\* dominates
Rejected == {perf \in Accepted :
                \E k \in DOMAIN pareto : WeaklyDominates(pareto[k][2], perf)}

\* C15: when some entry of pareto weakly dominates a newly accepted record, the
\* call leaves pareto exactly as it was: no entry is removed, the record is
\* not inserted.  Entries leave pareto only in a call that inserts its record.
C15_RejectionRemovesNothing ==
    [][ /\ \A config \in Unseen, perf \in Rejected :
               MOHistoryContainer_add(config, perf) => pareto' = pareto
        /\ \/ Keys(pareto) \subseteq Keys(pareto')
           \/ \E config \in Unseen : /\ config \in Keys(pareto')
                                     /\ data' = Append(data, <<config, GetPerf(pareto', config)>>)
      ]_vars

\* the record added last passed the first entry of a front of two, met the
\* second entry, which weakly dominates it, and the front is as it was
C15_Witness ==
    /\ IsMO
    /\ outcome = "added"
    /\ Len(data) = 3
    /\ pareto = <<data[1], data[2]>>
    /\ ~WeaklyDominates(data[1][2], data[3][2])
    /\ WeaklyDominates(data[2][2], data[3][2])

\* coordinate i of the performances of the records of d
Coordinate(d, i) == [k \in DOMAIN d |-> d[k][2][i]]

\* C16: for every objective i, after at least one accepted insertion,
\* mo_incumbent_value[i] is the minimum of coordinate i over all accepted
\* records.
C16_MoIncumbentValueIsMin ==
    (IsMO /\ config_counter > 0) =>
        \A i \in 1..num_objs :
            mo_incumbent_value[i] = SeqMin(Coordinate(data, i))

\* C18: in both variants config_counter is the number of entries of data, so
\* empty() is true exactly when data holds no record, and get_all_configs()
\* lists the accepted configurations, each once, in the order of their
\* insertion: a call either leaves the list as it was or puts its new
\* configuration at the end.
C18_CounterIsSizeOfData ==
    /\ [](/\ config_counter = Len(data)
          /\ empty <=> data = <<>>
          /\ Cardinality(Range(get_all_configs)) = Len(get_all_configs))
    /\ [][ \/ get_all_configs' = get_all_configs /\ outcome' # "added"
           \/ \E config \in Unseen :
                  /\ outcome' = "added"
                  /\ get_all_configs' = Append(get_all_configs, config)
         ]_vars

\* a single-objective ledger of three records, after a repeated call
C18_Witness ==
    /\ IsSO
    /\ outcome = "repeated"
    /\ config_counter = 3
    /\ Len(get_all_configs) = 3
    /\ ~empty

\* C19: pareto is empty if and only if config_counter is 0, so add never takes
\* the branch that substitutes 0 for the hypervolume of an empty front: the
\* front it computes the hypervolume of holds an entry.
C19_ParetoEmptyIffNoRecord ==
    /\ [](IsMO => (pareto = <<>> <=> config_counter = 0))
    /\ [][ (IsMO /\ (hv_data' # hv_data \/ config_counter' # config_counter))
               => get_pareto_front(pareto') # <<>>
         ]_vars

\* the record added last removed the two entries of the front and is its only
\* entry
C19_Witness ==
    /\ IsMO
    /\ ref_point # NoneSeq
    /\ outcome = "added"
    /\ Len(data) = 3
    /\ Len(hv_data) = 3
    /\ pareto = <<data[3]>>
    /\ data[1][2] # data[2][2]
    /\ ~WeaklyDominates(data[1][2], data[2][2])

====
